---- MODULE Spec2Model ----
(***************************************************************************)
(* Model of the log-system write path.                                     *)
(*                                                                         *)
(* file-manager: safeAppendToLog chains every operation onto the module    *)
(* level promise writeQueue; the body of an operation is                   *)
(*   ensureLogDirectory -> rotateLogFile -> fs.appendFile -> rotateLogFile *)
(* inside one try/catch.  logger: the function API (logInfo, logWarn,      *)
(* logError, logApiError) merges the global configuration with a per-call  *)
(* override, formats the entry and hands the string to safeAppendToLog.    *)
(* Logger class: level gated methods that write through the writers        *)
(* variant of safeAppendToLog (interval gated rotation check, failures     *)
(* rethrown).  log-entry: createLogEntry as a function of its error        *)
(* argument.                                                               *)
(*                                                                         *)
(* Specifications: Spec (direct calls of safeAppendToLog), FacadeSpec      *)
(* (function API), LoggerSpec (Logger class), EntrySpec (createLogEntry).  *)
(*                                                                         *)
(* A file is a sequence of bytes; every byte carries, as a ghost tag, the  *)
(* index of the operation that wrote it.  fs.appendFile is taken to be     *)
(* all-or-nothing: it either appends the whole string or rejects.          *)
(***************************************************************************)
EXTENDS Integers, Sequences, FiniteSets, TLC

\* ---------------------------------------------------------------- bounds
MaxOps == 3
MaxFaults == 1
MaxClock == 1
SmallMaxSize == 4
ConfiguredMaxLogSize == 4
MaxCalls == 2
MaxConfigCalls == 1
MaxReconfigs == 3
MaxLoggerCalls == 2
MaxStackLines == 10

\* ------------------------------------------------------ program constants
DEFAULT_MAX_LOG_SIZE == 10485760
DEFAULT_LOG_FILE_PATH == "logs/api-errors.log"
ROTATION_CHECK_INTERVAL == 1000 * 60 * 5
StackLinesKept == 5

\* ------------------------------------------------------------ input sets
NL == "\n"
OtherPath == "logs/test.log"
Paths == {DEFAULT_LOG_FILE_PATH, OtherPath}
Payloads == {<<"a">>, <<"c", NL, "c">>}
MaxSizes == {SmallMaxSize, DEFAULT_MAX_LOG_SIZE}

\* Logger class: `${logDir}/${getLogFileName(level)}` with logDir = "logs"
LoggerPaths == {"logs/errors.log", "logs/warnings.log", "logs/debug.log", "logs/app.log"}
AllPaths == Paths \cup LoggerPaths

\* path.dirname, path.basename(p, ext) and path.extname of the paths above
PathParts ==
  [p \in AllPaths |->
     CASE p = "logs/api-errors.log" -> [dir |-> "logs", base |-> "api-errors", ext |-> ".log"]
       [] p = "logs/test.log" -> [dir |-> "logs", base |-> "test", ext |-> ".log"]
       [] p = "logs/errors.log" -> [dir |-> "logs", base |-> "errors", ext |-> ".log"]
       [] p = "logs/warnings.log" -> [dir |-> "logs", base |-> "warnings", ext |-> ".log"]
       [] p = "logs/debug.log" -> [dir |-> "logs", base |-> "debug", ext |-> ".log"]
       [] p = "logs/app.log" -> [dir |-> "logs", base |-> "app", ext |-> ".log"]]

Dirname(p) == PathParts[p].dir

VARIABLES
  writeQueue,          \* index of the promise at the tail of the chain (0 = Promise.resolve())
  ops,                 \* the operations passed to writeQueue.then, in call order
  pc,                  \* position of every operation inside its body
  promise,             \* state of the promise returned for every operation
  active,              \* path -> the file at that path
  rotated,             \* the renamed files
  now,                 \* the clock read by new Date(), in milliseconds
  errSink,             \* what console.error has printed
  written,             \* ghost: operations in the order their appendFile succeeded
  stepFailed,          \* ghost: operations one of whose filesystem steps failed
  rotFailed,           \* ghost: paths for which a stat or rename of a rotation check failed
  faults,              \* number of injected filesystem failures
  configCalls,         \* number of setLoggerConfig calls made
  globalLoggerConfig,  \* logger/index.ts: the global configuration
  dirs,                \* the directories that exist
  console,             \* what console.log / info / warn / debug has printed
  callPc,              \* position of the logging call that awaits each operation
  loggerConfig,        \* Logger class: this.config
  loggerCalls,         \* ghost: the calls made on the Logger instance
  lastRotationCheck,   \* writers module: timestamp of the last rotation check
  probe,               \* argument and result of the pure function under examination
  fileManagerLastRotationCheck,  \* file-manager: let lastRotationCheck
  heap,                \* the formatOptions objects, by reference
  held,                \* the object a caller got from getLoggerConfig
  overtaken,           \* ghost: the calls issued, and not yet appended, when
                       \* setLoggerConfig ran
  patches,             \* ghost: the arguments of the setLoggerConfig calls made
  writersQueue         \* writers module: let writeQueue, the newest operation

\* the state of the Logger class, of the writers module and of the probe
others == <<loggerConfig, loggerCalls, lastRotationCheck, probe,
            fileManagerLastRotationCheck, heap, held, overtaken,
                 patches, writersQueue>>

vars == <<writeQueue, ops, pc, promise, active, rotated, now, errSink,
          written, stepFailed, rotFailed, faults, configCalls, globalLoggerConfig,
          dirs, console, callPc, others>>

\* --------------------------------------------------------------- helpers
\* the index standing for the initial Promise.resolve()
InitialPromise == 0

NoFile == [exists |-> FALSE, content |-> <<>>]

Tag(bytes, i) == [k \in 1..Len(bytes) |-> [c |-> bytes[k], op |-> i]]

Bytes(content) == [k \in 1..Len(content) |-> content[k].c]

OpsIn(content) == {content[k].op : k \in 1..Len(content)}

OpIds == 1..Len(ops)

PromiseState(k) == IF k = InitialPromise THEN "fulfilled" ELSE promise[k]

InBody(i) == pc[i] \in {"ensure", "pre", "append", "post"}

\* ---------------------------------------------------------- file-manager
\* mutant: the record separator is forgotten
AppendBytesNoSeparator(data) == data

\* data + "\n"
AppendBytes(data) == data \o <<NL>>

\* fs.appendFile: creates the file when missing, appends otherwise
AppendFile(f, tagged) == [exists |-> TRUE, content |-> f.content \o tagged]

\* mutant: the comparison is strict
ShouldRotateStrict(f, maxSize) == f.exists /\ Len(f.content) > maxSize

\* stats && stats.size >= maxSize
ShouldRotate(f, maxSize) == f.exists /\ Len(f.content) >= maxSize

\* milliseconds in a second, as Date counts them
MsPerSecond == 1000

\* the instant of clock reading 0, in milliseconds since the epoch: the last
\* millisecond of a second, so that the next reading starts a new second
ClockEpoch == MsPerSecond - 1

Digit(d) == <<"0", "1", "2", "3", "4", "5", "6", "7", "8", "9">>[d + 1]

Pad2(n) == <<Digit((n \div 10) % 10), Digit(n % 10)>>

Pad3(n) == <<Digit((n \div 100) % 10), Digit((n \div 10) % 10), Digit(n % 10)>>

\* Date.prototype.toISOString for an instant of the first minute after the
\* epoch, one character per element: YYYY-MM-DDTHH:mm:ss.sssZ
ToISOString(ms) ==
  <<"1", "9", "7", "0", "-", "0", "1", "-", "0", "1", "T", "0", "0", ":", "0", "0", ":">>
    \o Pad2(ms \div MsPerSecond) \o <<".">> \o Pad3(ms % MsPerSecond) \o <<"Z">>

\* mutant: the regular expression lacks the g flag, only the first match is replaced
ReplaceFirstColonOrDot(str) ==
  LET hits == {k \in 1..Len(str) : str[k] \in {":", "."}}
  IN [k \in 1..Len(str) |->
        IF k \in hits /\ (\A h \in hits : k <= h) THEN "-" ELSE str[k]]

\* .replace(/[:.]/g, "-")
ReplaceColonsDots(str) ==
  [k \in 1..Len(str) |-> IF str[k] \in {":", "."} THEN "-" ELSE str[k]]

\* path.join(dir, `${base}-${timestamp}${ext}`) for the rotation at clock reading t
RotatedName(path, t) ==
  <<PathParts[path].dir, "/", PathParts[path].base, "-">>
    \o ReplaceColonsDots(ToISOString(ClockEpoch + t))
    \o <<PathParts[path].ext>>

\* fs.rename replaces whatever is at the new path; from, at and lastCheck are
\* ghost fields: the path that was renamed, the clock reading of the rotation
\* and file-manager's lastRotationCheck at that moment
Rename(path, t) ==
  {r \in rotated : r.name # RotatedName(path, t)}
    \cup {[name |-> RotatedName(path, t), content |-> active[path].content,
            from |-> path, at |-> t, lastCheck |-> fileManagerLastRotationCheck]}

\* mutant: every operation is chained onto a fresh resolved promise
ChainTargetResolved == InitialPromise

\* the promise writeQueue.then(...) is called on
ChainTarget == writeQueue

\* the promise the writers module calls writeQueue.then(...) on: its own
WritersChainTarget == writersQueue

\* mutant: the body is run at once instead of being passed to then
ReadyToRunAtOnce(i) == TRUE

\* the then-callback runs once the promise it was chained onto has settled
ReadyToRun(i) == PromiseState(ops[i].pred) # "pending"

\* mutant: the catch block swallows the error without reporting it
CatchReportSilent(sink, i, cause) == sink

\* catch (error) { console.error("Failed to write to log file:", error); }
CatchReport(sink, i, cause) ==
  Append(sink, [op |-> i, msg |-> "Failed to write to log file:", cause |-> cause])

\* mutant: the catch block rethrows (throw error), as the writers module does
CatchSettlesRethrow == "rejected"

\* the catch block returns normally: the operation's promise fulfils
CatchSettles == "fulfilled"

\* no Logger instance has been constructed
NoLogger == [constructed |-> FALSE]

\* the arguments given to setlastRotationCheck: a reading long ago, which makes
\* a check due, and one ahead of the clock, which puts every write inside the
\* check interval
SetterValues == {0 - (ROTATION_CHECK_INTERVAL + 1), ROTATION_CHECK_INTERVAL}

\* formatOptions: {}, an object without keys
NoOptions == {}

\* the reference to the object literal of globalLoggerConfig.formatOptions
InitialOptionsRef == 1

\* no caller holds an object returned by getLoggerConfig
NoHeld == [taken |-> FALSE]

\* no pure function is under examination
NoProbe == [fn |-> "none"]

DefaultCfg ==
  [format |-> "json", formatOptions |-> InitialOptionsRef, consoleOutput |-> FALSE]

\* ghost: an operation enqueued by a direct call belongs to no logging call
NoCall == [level |-> "", message |-> <<>>]

TypeOK ==
  /\ writeQueue \in 0..MaxOps
  /\ Len(ops) <= MaxOps
  /\ Len(pc) = Len(ops) /\ Len(promise) = Len(ops)
  /\ now \in 0..MaxClock \cup {ROTATION_CHECK_INTERVAL, ROTATION_CHECK_INTERVAL + 1}
  /\ faults \in 0..MaxFaults
  /\ Len(callPc) = Len(ops)
  /\ dirs \subseteq {PathParts[p].dir : p \in AllPaths}
  /\ Len(loggerCalls) <= MaxLoggerCalls
  /\ lastRotationCheck \in {0, ROTATION_CHECK_INTERVAL + 1}
  /\ fileManagerLastRotationCheck \in SetterValues \cup {0}
  /\ Len(heap) = 1 /\ heap[InitialOptionsRef] \subseteq {"pretty"}
  /\ held.taken \in BOOLEAN
  /\ overtaken \subseteq 1..MaxOps
  /\ Len(patches) <= MaxReconfigs
  /\ writersQueue \in 0..MaxOps

\* the state once the modules are loaded, with the Logger instance and the
\* function under examination given
Loaded(logger, examined) ==
  /\ writeQueue = InitialPromise
  /\ ops = <<>>
  /\ pc = <<>>
  /\ promise = <<>>
  /\ active = [p \in AllPaths |-> NoFile]
  /\ rotated = {}
  /\ now = 0
  /\ errSink = <<>>
  /\ written = <<>>
  /\ stepFailed = {}
  /\ rotFailed = {}
  /\ faults = 0
  /\ configCalls = 0
  /\ globalLoggerConfig = DefaultCfg
  /\ dirs = {}
  /\ console = <<>>
  /\ callPc = <<>>
  /\ loggerConfig = logger
  /\ loggerCalls = <<>>
  /\ lastRotationCheck = 0
  /\ fileManagerLastRotationCheck = 0
  /\ heap = <<NoOptions>>
  /\ held = NoHeld
  /\ overtaken = {}
  /\ patches = <<>>
  /\ writersQueue = InitialPromise
  /\ probe = examined

Init == Loaded(NoLogger, NoProbe)

\* mutant: a call made while the chain is busy waits for it, or is turned away
CanEnqueueWhenIdle == PromiseState(writeQueue) # "pending"

\* then() registers the callback synchronously on a promise in any state, and
\* nothing in safeAppendToLog looks at the length of the chain
CanEnqueue == TRUE

\* writeQueue = writeQueue.then(async () => {...}); return writeQueue;
Enqueue(data, path, maxSize, src, cfg, call) ==
  /\ Len(ops) < MaxOps
  /\ CanEnqueue
  /\ ops' = Append(ops, [data |-> data, path |-> path, maxSize |-> maxSize,
                         pred |-> ChainTarget, src |-> src, cfg |-> cfg,
                         call |-> call,
                         behindPending |-> PromiseState(writeQueue) = "pending"])
  /\ pc' = Append(pc, "queued")
  /\ promise' = Append(promise, "pending")
  /\ callPc' = Append(callPc, IF src = "direct" THEN "none" ELSE "awaiting")
  /\ writeQueue' = Len(ops) + 1
  /\ UNCHANGED <<active, rotated, now, errSink, written, stepFailed, rotFailed,
                 faults, configCalls, globalLoggerConfig, dirs, console>>

\* a direct call of the exported safeAppendToLog(data, logFilePath, maxSize)
SafeAppendToLog ==
  \E data \in Payloads, path \in Paths, maxSize \in MaxSizes :
    /\ Enqueue(data, path, maxSize, "direct", DefaultCfg, NoCall)
    /\ UNCHANGED others

\* mutant: the reactions of a settled promise run in any order
AwaiterResumedAnyOrder(i) == TRUE

\* the reactions of a promise run in the order they were registered: the
\* await inside writeLog was registered on the earlier operation's promise
\* when that call was made, before this callback was chained onto it
AwaiterResumed(i) ==
  IF ops[i].pred = InitialPromise THEN TRUE ELSE callPc[ops[i].pred] # "awaiting"

\* promise.then(callback): the callback runs when the promise fulfilled; a
\* rejected promise rejects the derived promise without running the callback
Start(i) ==
  /\ pc[i] = "queued"
  /\ ReadyToRun(i)
  /\ AwaiterResumed(i)
  /\ IF PromiseState(ops[i].pred) = "rejected"
       THEN /\ pc' = [pc EXCEPT ![i] = "skipped"]
            /\ promise' = [promise EXCEPT ![i] = "rejected"]
       ELSE /\ pc' = [pc EXCEPT ![i] = "ensure"]
            /\ UNCHANGED promise
  /\ UNCHANGED <<writeQueue, ops, active, rotated, now, errSink, written,
                 stepFailed, rotFailed, faults, configCalls, globalLoggerConfig,
                 dirs, console, callPc, others>>

\* mutant: ensureLogDirectory reports the failure without rethrowing it
EnsureFailureNextSwallowed == "pre"

\* ensureLogDirectory rethrows: the body jumps to the catch block and ends
EnsureFailureNext == "done"

\* ensureLogDirectory's own catch: console.error(...); throw error;
EnsureReport(i) ==
  Append(errSink, [op |-> i, msg |-> "Failed to create logs directory:", cause |-> "mkdir"])

\* rotateLogFile's catch: console.error("Failed to create logs directory:", error), no rethrow
RotateReport(i) ==
  Append(errSink, [op |-> i, msg |-> "Failed to create logs directory:", cause |-> "rename"])

\* mutant: mkdir without the recursive option
MkdirFlat == FALSE

\* fs.mkdir(logDir, { recursive: true })
MkdirRecursive == TRUE

\* fs.mkdir on an existing directory: EEXIST unless the recursive option is set
MkdirRejectsExisting(dir) == dir \in dirs /\ ~MkdirRecursive

\* fs.mkdir can fail for a directory that is not there yet (permissions, disk)
MkdirMayFail(dir) == dir \notin dirs /\ faults < MaxFaults

\* mutant: the pre-check is left out, the append follows the directory-ensure
AfterEnsureSkipsCheck == "append"

\* the statement after await ensureLogDirectory(logDir) is the pre-check
AfterEnsure == "pre"

\* await ensureLogDirectory(logDir): fs.mkdir(logDir, {recursive: true}) succeeds
EnsureOk(i) ==
  /\ pc[i] = "ensure"
  /\ ~MkdirRejectsExisting(Dirname(ops[i].path))
  /\ dirs' = dirs \cup {Dirname(ops[i].path)}
  /\ pc' = [pc EXCEPT ![i] = AfterEnsure]
  /\ UNCHANGED <<writeQueue, ops, promise, active, rotated, now, errSink, written,
                 stepFailed, rotFailed, faults, configCalls, globalLoggerConfig,
                 console, callPc, others>>

\* fs.mkdir rejects: ensureLogDirectory reports and rethrows, the catch block of
\* safeAppendToLog reports again and the body ends
EnsureFail(i) ==
  /\ pc[i] = "ensure"
  /\ \/ MkdirMayFail(Dirname(ops[i].path)) /\ faults' = faults + 1
     \/ MkdirRejectsExisting(Dirname(ops[i].path)) /\ faults' = faults
  /\ errSink' = CatchReport(EnsureReport(i), i, "mkdir")
  /\ pc' = [pc EXCEPT ![i] = EnsureFailureNext]
  /\ promise' = [promise EXCEPT ![i] = IF EnsureFailureNext = "done" THEN CatchSettles ELSE @]
  /\ stepFailed' = stepFailed \cup {i}
  /\ UNCHANGED <<writeQueue, ops, active, rotated, now, written, rotFailed,
                 configCalls, globalLoggerConfig,
                 dirs, console, callPc, others>>

\* rotateLogFile(logFilePath, maxSize): what it does to the disk and the sinks
RotateLogFile(i) ==
  LET path == ops[i].path
      f == active[path]
  IN \/ /\ ~ShouldRotate(f, ops[i].maxSize)
        /\ UNCHANGED <<active, rotated, errSink, stepFailed, rotFailed, faults>>
     \/ /\ ShouldRotate(f, ops[i].maxSize)
        /\ rotated' = Rename(path, now)
        /\ active' = [active EXCEPT ![path] = NoFile]
        /\ UNCHANGED <<errSink, stepFailed, rotFailed, faults>>
     \/ \* fs.rename rejects: reported by rotateLogFile, not rethrown
        /\ ShouldRotate(f, ops[i].maxSize)
        /\ faults < MaxFaults
        /\ errSink' = RotateReport(i)
        /\ stepFailed' = stepFailed \cup {i}
        /\ rotFailed' = rotFailed \cup {path}
        /\ faults' = faults + 1
        /\ UNCHANGED <<active, rotated>>
     \/ \* fs.stat rejects for an existing file: .catch(() => null), no rotation
        /\ ShouldRotate(f, ops[i].maxSize)
        /\ faults < MaxFaults
        /\ rotFailed' = rotFailed \cup {path}
        /\ faults' = faults + 1
        /\ UNCHANGED <<active, rotated, errSink, stepFailed>>

\* mutant: rotateLogFile rethrows, as the writers module does
AfterRotateFailureRethrow == "done"

\* rotateLogFile swallows the error of a failed rename: the body goes on
AfterRotateFailure == "append"

\* mutant: rotateLogFile is called only when the check interval has passed, as
\* in the writers module
RotationGateInterval ==
  now - fileManagerLastRotationCheck > ROTATION_CHECK_INTERVAL

\* await rotateLogFile(logFilePath, maxSize) stands under no condition:
\* safeAppendToLog never reads lastRotationCheck
RotationGate == TRUE

\* the call of rotateLogFile, and what is left alone when it is not made
GatedRotateLogFile(i) ==
  IF RotationGate
    THEN RotateLogFile(i)
    ELSE UNCHANGED <<active, rotated, errSink, stepFailed, rotFailed, faults>>

\* "Always check file size before every write"
PreCheck(i) ==
  /\ pc[i] = "pre"
  /\ GatedRotateLogFile(i)
  /\ pc' = [pc EXCEPT ![i] = IF errSink' # errSink THEN AfterRotateFailure ELSE "append"]
  /\ UNCHANGED <<writeQueue, ops, promise, now, written, configCalls, globalLoggerConfig,
                 dirs, console, callPc, others>>

\* await fs.appendFile(logFilePath, data + "\n", "utf8") succeeds
AppendOk(i) ==
  /\ pc[i] = "append"
  /\ active' = [active EXCEPT ![ops[i].path] = AppendFile(@, Tag(AppendBytes(ops[i].data), i))]
  /\ written' = Append(written, i)
  /\ pc' = [pc EXCEPT ![i] = "post"]
  /\ UNCHANGED <<writeQueue, ops, promise, rotated, now, errSink, stepFailed,
                 rotFailed, faults, configCalls, globalLoggerConfig,
                 dirs, console, callPc, others>>

\* fs.appendFile rejects: the catch block reports and the body ends
AppendFail(i) ==
  /\ pc[i] = "append"
  /\ faults < MaxFaults
  /\ errSink' = CatchReport(errSink, i, "append")
  /\ pc' = [pc EXCEPT ![i] = "done"]
  /\ promise' = [promise EXCEPT ![i] = CatchSettles]
  /\ stepFailed' = stepFailed \cup {i}
  /\ faults' = faults + 1
  /\ UNCHANGED <<writeQueue, ops, active, rotated, now, written, rotFailed,
                 configCalls, globalLoggerConfig,
                 dirs, console, callPc, others>>

\* "Check again after writing in case the file now exceeds the limit";
\* the async callback returns and the operation's promise fulfils
PostCheck(i) ==
  /\ pc[i] = "post"
  /\ GatedRotateLogFile(i)
  /\ pc' = [pc EXCEPT ![i] = "done"]
  /\ promise' = [promise EXCEPT ![i] = "fulfilled"]
  /\ UNCHANGED <<writeQueue, ops, now, written, configCalls, globalLoggerConfig,
                 dirs, console, callPc, others>>

\* time passes: the next new Date() is one millisecond later
Tick ==
  /\ now < MaxClock
  /\ now' = now + 1
  /\ UNCHANGED <<writeQueue, ops, pc, promise, active, rotated, errSink, written,
                 stepFailed, rotFailed, faults, configCalls, globalLoggerConfig,
                 dirs, console, callPc, others>>

Step ==
  \E i \in OpIds :
    \/ Start(i)
    \/ EnsureOk(i)
    \/ EnsureFail(i)
    \/ PreCheck(i)
    \/ AppendOk(i)
    \/ AppendFail(i)
    \/ PostCheck(i)

Next ==
  \/ SafeAppendToLog
  \/ Step
  \/ Tick

Spec == Init /\ [][Next]_vars

\* the event loop runs every callback that is ready, and every filesystem
\* call returns, with success or with failure: an operation that can take
\* its next step does take it
LiveSpec == Init /\ [][Next]_vars /\ WF_vars(Step)

\* export function setlastRotationCheck(value) { lastRotationCheck = value; }
\* a plain synchronous function: it can be called between any two steps
SetlastRotationCheck ==
  \E value \in SetterValues :
    /\ fileManagerLastRotationCheck' = value
    /\ UNCHANGED <<writeQueue, ops, pc, promise, active, rotated, now, errSink,
                   written, stepFailed, rotFailed, faults, configCalls,
                   globalLoggerConfig, dirs, console, callPc, loggerConfig,
                   loggerCalls, lastRotationCheck, probe, heap, held, overtaken,
                 patches, writersQueue>>

NextSetter ==
  \/ SafeAppendToLog
  \/ Step
  \/ SetlastRotationCheck

\* a program that calls safeAppendToLog and setlastRotationCheck
SetterSpec == Init /\ [][NextSetter]_vars

\* ------------------------------------------------------------------ logger
Levels == {"INFO", "WARN", "ERROR"}
Messages == {<<"m">>, <<"m", " ">>}

\* the logging calls made: logInfo("m"), logWarn("m "), logError("m", error)
Calls ==
  { [level |-> "INFO", message |-> <<"m">>],
    [level |-> "WARN", message |-> <<"m", " ">>],
    [level |-> "ERROR", message |-> <<"m">>] }

\* the Partial<LoggerConfig> values passed to setLoggerConfig
ConfigPatches ==
  { [logFilePath |-> OtherPath],
    [maxLogSize |-> ConfiguredMaxLogSize],
    [format |-> "text"],
    [consoleOutput |-> TRUE],
    [format |-> "text", consoleOutput |-> TRUE],
    [minLevel |-> "WARN"] }

\* the configOverride argument of a logging call; the empty record is "none"
Overrides == { [k \in {} |-> TRUE], [format |-> "text", consoleOutput |-> TRUE] }

\* mutant: the spread is written the other way round, { ...patch, ...base }
MergeBaseWins(base, patch) ==
  [k \in DOMAIN base \cup DOMAIN patch |-> IF k \in DOMAIN base THEN base[k] ELSE patch[k]]

\* { ...base, ...patch }
Merge(base, patch) ==
  [k \in DOMAIN base \cup DOMAIN patch |-> IF k \in DOMAIN patch THEN patch[k] ELSE base[k]]

\* createFormatter(format, options).format(entry): the text form is
\* "<LEVEL>: <message>", the json form one object holding level and message
Format(format, level, message) ==
  IF format = "text" THEN <<level, ": ">> \o message
  ELSE <<"{", level>> \o message \o <<"}">>

\* writeLog calls safeAppendToLog(formatted): logFilePath takes its default
WriteLogPath(config) == DEFAULT_LOG_FILE_PATH

\* writeLog calls safeAppendToLog(formatted): maxSize takes its default
WriteLogMaxSize(config) == DEFAULT_MAX_LOG_SIZE

\* setLoggerConfig(config), as long as fewer than limit calls were made
SetLoggerConfigWithin(limit) ==
  \E patch \in ConfigPatches :
    /\ configCalls < limit
    /\ patches' = Append(patches, patch)
    /\ configCalls' = configCalls + 1
    /\ globalLoggerConfig' = Merge(globalLoggerConfig, patch)
    /\ overtaken' = overtaken \cup
                      {i \in OpIds : /\ ops[i].src = "facade"
                                     /\ pc[i] \in {"queued", "ensure", "pre", "append"}}
    /\ UNCHANGED <<writeQueue, ops, pc, promise, active, rotated, now, errSink,
                   written, stepFailed, rotFailed, faults,
                   dirs, console, callPc, loggerConfig, loggerCalls,
                   lastRotationCheck, probe, fileManagerLastRotationCheck,
                   heap, held, writersQueue>>

SetLoggerConfig == SetLoggerConfigWithin(MaxConfigCalls)

\* getFormatter: the options createFormatter is given, cfg.formatOptions || {}
FormatterOptions(cfg) == heap[cfg.formatOptions]

\* logInfo / logWarn / logError / logApiError up to the call of safeAppendToLog
\* inside writeLog: merge the configuration, format the entry, enqueue it
LogCall ==
  \E call \in Calls, configOverride \in Overrides :
    LET config == Merge(globalLoggerConfig, configOverride)
    IN /\ Len(ops) < MaxCalls
       /\ Enqueue(Format(config.format, call.level, call.message),
                  WriteLogPath(config), WriteLogMaxSize(config), "facade", config,
                  [level |-> call.level, message |-> call.message,
                   override |-> configOverride, global |-> globalLoggerConfig,
                   timestamp |-> ToISOString(ClockEpoch + now),
                   options |-> FormatterOptions(config)])
       /\ UNCHANGED others

Whitespace == {" ", NL, "\t"}

RECURSIVE TrimStart(_)
TrimStart(str) ==
  IF str # <<>> /\ Head(str) \in Whitespace THEN TrimStart(Tail(str)) ELSE str

RECURSIVE TrimEnd(_)
TrimEnd(str) ==
  IF str # <<>> /\ str[Len(str)] \in Whitespace
    THEN TrimEnd(SubSeq(str, 1, Len(str) - 1))
    ELSE str

\* String.prototype.trim
Trim(str) == TrimEnd(TrimStart(str))

\* mutant: the record is mirrored whatever the configuration says
MirrorsToConsoleAlways(config) == TRUE

\* if ((config || globalLoggerConfig).consoleOutput): every caller passes config
MirrorsToConsole(config) == config.consoleOutput

\* mutant: writeLog reads the global configuration after the await
WriteLogConfigGlobal(i) == globalLoggerConfig

\* the config argument of writeLog: the object the logging call built before
\* the await
WriteLogConfig(i) == ops[i].cfg

\* writeLog after await safeAppendToLog(formatted): a rejection is thrown on
\* to the caller, otherwise the record is mirrored and the call returns
WriteLogResume(i) ==
  /\ ops[i].src = "facade"
  /\ callPc[i] = "awaiting"
  /\ promise[i] # "pending"
  /\ callPc' = [callPc EXCEPT ![i] = IF promise[i] = "rejected" THEN "threw" ELSE "returned"]
  /\ console' = IF promise[i] = "fulfilled" /\ MirrorsToConsole(WriteLogConfig(i))
                  THEN Append(console, [op |-> i, text |-> Trim(ops[i].data)])
                  ELSE console
  /\ UNCHANGED <<writeQueue, ops, pc, promise, active, rotated, now, errSink,
                 written, stepFailed, rotFailed, faults, configCalls, globalLoggerConfig,
                 dirs, others>>

Resume == \E i \in OpIds : WriteLogResume(i)

NextFacade ==
  \/ SetLoggerConfig
  \/ LogCall
  \/ Step
  \/ Resume

FacadeSpec == Init /\ [][NextFacade]_vars

\* a program that only reconfigures
Reconfigure == SetLoggerConfigWithin(MaxReconfigs)

ReconfigSpec == Init /\ [][Reconfigure]_vars

NextClocked ==
  \/ LogCall
  \/ Step
  \/ Resume
  \/ Tick

\* logging calls while the clock moves
ClockedSpec == Init /\ [][NextClocked]_vars

\* { ...globalLoggerConfig }: a new object with the same values under the same
\* keys; a value that is an object is the same object
CopyOf(config) == config

\* getLoggerConfig(): the caller keeps the object returned
GetLoggerConfig ==
  /\ ~held.taken
  /\ held' = [taken |-> TRUE, config |-> CopyOf(globalLoggerConfig)]
  /\ UNCHANGED <<writeQueue, ops, pc, promise, active, rotated, now, errSink,
                 written, stepFailed, rotFailed, faults, configCalls,
                 globalLoggerConfig, dirs, console, callPc, loggerConfig,
                 loggerCalls, lastRotationCheck, probe,
                 fileManagerLastRotationCheck, heap, overtaken,
                 patches, writersQueue>>

\* the caller writes into the object it got: cfg.format = "text", or
\* cfg.formatOptions.pretty = true
MutateReturned ==
  /\ held.taken
  /\ \/ /\ held.config.format # "text"
        /\ held' = [held EXCEPT !.config.format = "text"]
        /\ UNCHANGED heap
     \/ /\ "pretty" \notin heap[held.config.formatOptions]
        /\ heap' = [heap EXCEPT ![held.config.formatOptions] = @ \cup {"pretty"}]
        /\ UNCHANGED held
  /\ UNCHANGED <<writeQueue, ops, pc, promise, active, rotated, now, errSink,
                 written, stepFailed, rotFailed, faults, configCalls,
                 globalLoggerConfig, dirs, console, callPc, loggerConfig,
                 loggerCalls, lastRotationCheck, probe,
                 fileManagerLastRotationCheck, overtaken,
                 patches, writersQueue>>

NextConfig ==
  \/ SetLoggerConfig
  \/ GetLoggerConfig
  \/ MutateReturned
  \/ LogCall
  \/ Step
  \/ Resume

\* a program that also reads the configuration and writes into what it got
ConfigSpec == Init /\ [][NextConfig]_vars

\* ------------------------------------------------------------ Logger class
LoggerLevels == {"DEBUG", "INFO", "WARN", "ERROR"}

LoggerMessages == {<<"m">>}

\* the minLevel given to the constructor; "" stands for none given
MinLevelArgs == LoggerLevels \cup {""}

\* config?.minLevel || LogLevel.INFO, config?.consoleOutput || false, ...;
\* given is a ghost field (the argument), ensured the state of the
\* constructor's ensureLogDirectory(this.config.logDir)
NewLogger(minLevel, consoleOutput) ==
  [constructed |-> TRUE,
   logDir |-> "logs",
   format |-> "json",
   consoleOutput |-> consoleOutput,
   minLevel |-> IF minLevel = "" THEN "INFO" ELSE minLevel,
   given |-> minLevel,
   ensured |-> "pending"]

LoggerInit ==
  \E minLevel \in MinLevelArgs, consoleOutput \in BOOLEAN :
    Loaded(NewLogger(minLevel, consoleOutput), NoProbe)

\* shouldLog: const levelOrder = {...}
LevelOrder == [DEBUG |-> 0, INFO |-> 1, WARN |-> 2, ERROR |-> 3]

\* mutant: the comparison is strict
ShouldLogStrict(level, minLevel) == LevelOrder[level] > LevelOrder[minLevel]

\* levelOrder[level] >= levelOrder[this.config.minLevel]
ShouldLog(level, minLevel) == LevelOrder[level] >= LevelOrder[minLevel]

\* mutant: every level goes to the general file
GetLogFileNameSingle(level) == "app.log"

\* getLogFileName(level): the switch over the level
GetLogFileName(level) ==
  CASE level = "ERROR" -> "errors.log"
    [] level = "WARN" -> "warnings.log"
    [] level = "DEBUG" -> "debug.log"
    [] OTHER -> "app.log"

\* `${this.config.logDir}/${this.getLogFileName(entry.level)}`
LoggerFilePath(level) ==
  CHOOSE p \in LoggerPaths :
    PathParts[p].dir = loggerConfig.logDir
      /\ GetLogFileName(level) = PathParts[p].base \o PathParts[p].ext

\* the constructor's ensureLogDirectory(logDir).catch(console.error) settles
ConstructorEnsure ==
  /\ loggerConfig.constructed
  /\ loggerConfig.ensured = "pending"
  /\ \/ /\ ~MkdirRejectsExisting(loggerConfig.logDir)
        /\ dirs' = dirs \cup {loggerConfig.logDir}
        /\ loggerConfig' = [loggerConfig EXCEPT !.ensured = "done"]
        /\ UNCHANGED <<errSink, faults>>
     \/ /\ MkdirMayFail(loggerConfig.logDir)
        /\ faults' = faults + 1
        /\ errSink' = Append(EnsureReport(0),
                             [op |-> 0, msg |-> "Failed to create log directory:", cause |-> "mkdir"])
        /\ loggerConfig' = [loggerConfig EXCEPT !.ensured = "failed"]
        /\ UNCHANGED dirs
  /\ UNCHANGED <<writeQueue, ops, pc, promise, active, rotated, now, written,
                 stepFailed, rotFailed, configCalls, globalLoggerConfig,
                 console, callPc, loggerCalls, lastRotationCheck, probe,
                 fileManagerLastRotationCheck, heap, held, overtaken,
                 patches, writersQueue>>

\* the safeAppendToLog of the writers module: writeQueue = writeQueue.then(...)
\* on the writeQueue of that module
EnqueueWriters(data, path, maxSize, src, cfg, call) ==
  /\ Len(ops) < MaxOps
  /\ ops' = Append(ops, [data |-> data, path |-> path, maxSize |-> maxSize,
                         pred |-> WritersChainTarget, src |-> src, cfg |-> cfg,
                         call |-> call,
                         behindPending |-> PromiseState(writersQueue) = "pending"])
  /\ pc' = Append(pc, "queued")
  /\ promise' = Append(promise, "pending")
  /\ callPc' = Append(callPc, "awaiting")
  /\ writersQueue' = Len(ops) + 1
  /\ UNCHANGED <<writeQueue, active, rotated, now, errSink, written, stepFailed,
                 rotFailed, faults, configCalls, globalLoggerConfig, dirs, console>>

\* info / warn / debug / error / apiError: the gate, then createLogEntry and
\* writeLog up to its call of safeAppendToLog
LoggerCall ==
  \E level \in LoggerLevels, message \in LoggerMessages :
    /\ loggerConfig.constructed
    /\ Len(loggerCalls) < MaxLoggerCalls
    /\ IF ShouldLog(level, loggerConfig.minLevel)
         THEN /\ EnqueueWriters(Format(loggerConfig.format, level, message),
                                LoggerFilePath(level), DEFAULT_MAX_LOG_SIZE, "logger",
                                loggerConfig, [level |-> level, message |-> message])
              /\ loggerCalls' = Append(loggerCalls, [level |-> level, enq |-> Len(ops) + 1])
         ELSE /\ loggerCalls' = Append(loggerCalls, [level |-> level, enq |-> 0])
              /\ UNCHANGED <<writeQueue, ops, pc, promise, active, rotated, now, errSink,
                             written, stepFailed, rotFailed, faults, configCalls,
                             globalLoggerConfig, dirs, console, callPc, writersQueue>>
    /\ UNCHANGED <<loggerConfig, lastRotationCheck, probe,
                   fileManagerLastRotationCheck, heap, held, overtaken, patches>>

\* writers: a failure inside the callback is printed and thrown again
WritersCatch(i, sink, cause) ==
  /\ errSink' = Append(sink, [op |-> i, msg |-> "Failed to write to log file:", cause |-> cause])
  /\ pc' = [pc EXCEPT ![i] = "done"]
  /\ promise' = [promise EXCEPT ![i] = "rejected"]
  /\ stepFailed' = stepFailed \cup {i}

\* writers: fs.mkdir rejects
WritersEnsureFail(i) ==
  /\ pc[i] = "ensure"
  /\ MkdirMayFail(Dirname(ops[i].path))
  /\ faults' = faults + 1
  /\ WritersCatch(i, EnsureReport(i), "mkdir")
  /\ UNCHANGED <<writeQueue, ops, active, rotated, now, written, rotFailed,
                 configCalls, globalLoggerConfig, dirs, console, callPc, others>>

\* mutant: the check is due as soon as a whole interval has passed
RotationCheckDueInclusive == now - lastRotationCheck >= ROTATION_CHECK_INTERVAL

\* Date.now() - lastRotationCheck > DEFAULT_CONFIG.ROTATION_CHECK_INTERVAL
RotationCheckDue == now - lastRotationCheck > ROTATION_CHECK_INTERVAL

\* writers: the rotation check between ensureLogDirectory and fs.appendFile;
\* rotateLogFile(logFilePath) runs with the default maxSize and rethrows
WritersRotationCheck(i) ==
  LET path == ops[i].path
      f == active[path]
  IN /\ pc[i] = "pre"
     /\ \/ /\ ~RotationCheckDue
           /\ pc' = [pc EXCEPT ![i] = "append"]
           /\ UNCHANGED <<promise, active, rotated, errSink, stepFailed, rotFailed,
                          faults, lastRotationCheck>>
        \/ /\ RotationCheckDue
           /\ ~ShouldRotate(f, ops[i].maxSize)
           /\ lastRotationCheck' = now
           /\ pc' = [pc EXCEPT ![i] = "append"]
           /\ UNCHANGED <<promise, active, rotated, errSink, stepFailed, rotFailed, faults>>
        \/ /\ RotationCheckDue
           /\ ShouldRotate(f, ops[i].maxSize)
           /\ rotated' = Rename(path, now)
           /\ active' = [active EXCEPT ![path] = NoFile]
           /\ lastRotationCheck' = now
           /\ pc' = [pc EXCEPT ![i] = "append"]
           /\ UNCHANGED <<promise, errSink, stepFailed, rotFailed, faults>>
        \/ /\ RotationCheckDue
           /\ ShouldRotate(f, ops[i].maxSize)
           /\ faults < MaxFaults
           /\ faults' = faults + 1
           /\ rotFailed' = rotFailed \cup {path}
           /\ WritersCatch(i, Append(errSink, [op |-> i, msg |-> "Log rotation failed:",
                                               cause |-> "rename"]), "rename")
           /\ UNCHANGED <<active, rotated, lastRotationCheck>>
     /\ UNCHANGED <<writeQueue, ops, now, written, configCalls, globalLoggerConfig,
                    dirs, console, callPc, loggerConfig, loggerCalls, probe,
                    fileManagerLastRotationCheck, heap, held, overtaken,
                 patches, writersQueue>>

\* writers: fs.appendFile succeeds, the callback returns
WritersAppendOk(i) ==
  /\ pc[i] = "append"
  /\ active' = [active EXCEPT ![ops[i].path] = AppendFile(@, Tag(AppendBytes(ops[i].data), i))]
  /\ written' = Append(written, i)
  /\ pc' = [pc EXCEPT ![i] = "done"]
  /\ promise' = [promise EXCEPT ![i] = "fulfilled"]
  /\ UNCHANGED <<writeQueue, ops, rotated, now, errSink, stepFailed, rotFailed, faults,
                 configCalls, globalLoggerConfig, dirs, console, callPc, others>>

\* writers: fs.appendFile rejects
WritersAppendFail(i) ==
  /\ pc[i] = "append"
  /\ faults < MaxFaults
  /\ faults' = faults + 1
  /\ WritersCatch(i, errSink, "append")
  /\ UNCHANGED <<writeQueue, ops, active, rotated, now, written, rotFailed,
                 configCalls, globalLoggerConfig, dirs, console, callPc, others>>

\* logToConsole: `[${level}] ${message}`
ConsoleLine(call) == <<"[", call.level, "] ">> \o call.message

\* Logger.writeLog after await safeAppendToLog: mirror the entry when
\* consoleOutput is set (console.error for ERROR entries), or catch the
\* rejection and print "Failed to write log:"
LoggerWriteLogResume(i) ==
  /\ ops[i].src = "logger"
  /\ callPc[i] = "awaiting"
  /\ promise[i] # "pending"
  /\ callPc' = [callPc EXCEPT ![i] = "returned"]
  /\ IF promise[i] = "rejected"
       THEN /\ errSink' = Append(errSink, [op |-> i, msg |-> "Failed to write log:", cause |-> "write"])
            /\ UNCHANGED console
       ELSE IF ~ops[i].cfg.consoleOutput
         THEN UNCHANGED <<errSink, console>>
       ELSE IF ops[i].call.level = "ERROR"
         THEN /\ errSink' = Append(errSink, [op |-> i, msg |-> ConsoleLine(ops[i].call), cause |-> "mirror"])
              /\ UNCHANGED console
       ELSE /\ console' = Append(console, [op |-> i, text |-> ConsoleLine(ops[i].call)])
            /\ UNCHANGED errSink
  /\ UNCHANGED <<writeQueue, ops, pc, promise, active, rotated, now, written, stepFailed,
                 rotFailed, faults, configCalls, globalLoggerConfig, dirs, others>>

\* time passes: first a whole rotation check interval, then one millisecond more
LoggerTick ==
  /\ now <= ROTATION_CHECK_INTERVAL
  /\ now' = IF now < ROTATION_CHECK_INTERVAL THEN ROTATION_CHECK_INTERVAL ELSE now + 1
  /\ UNCHANGED <<writeQueue, ops, pc, promise, active, rotated, errSink, written,
                 stepFailed, rotFailed, faults, configCalls, globalLoggerConfig,
                 dirs, console, callPc, others>>

LoggerStep ==
  \E i \in OpIds :
    \/ Start(i)
    \/ EnsureOk(i)
    \/ WritersEnsureFail(i)
    \/ WritersRotationCheck(i)
    \/ WritersAppendOk(i)
    \/ WritersAppendFail(i)
    \/ LoggerWriteLogResume(i)

NextLogger ==
  \/ ConstructorEnsure
  \/ LoggerCall
  \/ LoggerStep
  \/ LoggerTick

LoggerSpec == LoggerInit /\ [][NextLogger]_vars

\* the steps of an operation, by the module whose safeAppendToLog made it
MixedStep ==
  \E i \in OpIds :
    \/ Start(i)
    \/ EnsureOk(i)
    \/ /\ ops[i].src = "logger"
       /\ \/ WritersEnsureFail(i)
          \/ WritersRotationCheck(i)
          \/ WritersAppendOk(i)
          \/ WritersAppendFail(i)
          \/ LoggerWriteLogResume(i)
    \/ /\ ops[i].src = "facade"
       /\ \/ EnsureFail(i)
          \/ PreCheck(i)
          \/ AppendOk(i)
          \/ AppendFail(i)
          \/ PostCheck(i)
          \/ WriteLogResume(i)

NextMixed ==
  \/ LogCall
  \/ LoggerCall
  \/ MixedStep

\* a program that logs through a Logger instance and through the function API
MixedSpec == Loaded(NewLogger("", FALSE), NoProbe) /\ [][NextMixed]_vars

\* --------------------------------------------------------------- log-entry
\* the lines a stack is made of
StackLineChoices == {<<"E">>, <<>>}

RECURSIVE Join(_, _)
\* Array.prototype.join
Join(parts, sep) ==
  IF parts = <<>> THEN <<>>
  ELSE IF Len(parts) = 1 THEN parts[1]
  ELSE parts[1] \o <<sep>> \o Join(Tail(parts), sep)

RECURSIVE SplitFrom(_, _, _)
SplitFrom(str, sep, cur) ==
  IF str = <<>> THEN <<cur>>
  ELSE IF Head(str) = sep THEN <<cur>> \o SplitFrom(Tail(str), sep, <<>>)
  ELSE SplitFrom(Tail(str), sep, Append(cur, Head(str)))

\* String.prototype.split with a one character separator
Split(str, sep) == SplitFrom(str, sep, <<>>)

\* Array.prototype.slice(0, n)
SliceFirst(parts, n) == SubSeq(parts, 1, IF Len(parts) < n THEN Len(parts) ELSE n)

\* mutant: the stack is copied whole
TruncateStackNot(stack) == stack

\* error.stack.split("\n").slice(0, 5).join("\n")
TruncateStack(stack) == Join(SliceFirst(Split(stack, NL), StackLinesKept), NL)

RECURSIVE SeqsOver(_, _)
SeqsOver(S, n) ==
  IF n = 0 THEN {<<>>}
  ELSE LET shorter == SeqsOver(S, n - 1)
       IN shorter \cup {Append(q, x) : q \in {r \in shorter : Len(r) = n - 1}, x \in S}

\* the error argument of createLogEntry: none, an error without a stack, or
\* an error whose stack has 1..MaxStackLines lines
ErrorArgs ==
  { [present |-> FALSE], [present |-> TRUE, name |-> "E", hasStack |-> FALSE] }
    \cup { [present |-> TRUE, name |-> "E", hasStack |-> TRUE, stack |-> Join(ls, NL)] :
             ls \in SeqsOver(StackLineChoices, MaxStackLines) \ {<<>>} }

EntryInit ==
  \E error \in ErrorArgs :
    Loaded(NoLogger, [fn |-> "createLogEntry", error |-> error, called |-> FALSE])

\* error && { ...error, stack: error.stack?.split("\n").slice(0, 5).join("\n") }
EntryError(error) ==
  IF ~error.present THEN error
  ELSE IF ~error.hasStack THEN error
  ELSE [error EXCEPT !.stack = TruncateStack(@)]

\* createLogEntry(level, message, error)
CreateLogEntry ==
  /\ probe.fn = "createLogEntry"
  /\ ~probe.called
  /\ probe' = [fn |-> "createLogEntry", error |-> probe.error, called |-> TRUE,
               entry |-> [level |-> "ERROR", message |-> <<"m">>,
                          error |-> EntryError(probe.error)]]
  /\ UNCHANGED <<writeQueue, ops, pc, promise, active, rotated, now, errSink,
                 written, stepFailed, rotFailed, faults, configCalls, globalLoggerConfig,
                 dirs, console, callPc, loggerConfig, loggerCalls, lastRotationCheck,
                 fileManagerLastRotationCheck, heap, held, overtaken,
                 patches, writersQueue>>

NextEntry == CreateLogEntry

EntrySpec == EntryInit /\ [][NextEntry]_vars

\* ---- request-utils: extractRequestData ----

\* number of distinct header values a request is built from
MaxHeaderValues == 2

HeaderValues == 1..MaxHeaderValues

\* header names as a caller may spell them
HeaderNames == {"content-type", "User-Agent", "authorization", "Cookie"}

\* String.prototype.toLowerCase on the header names in use
ToLowerCase(key) ==
  CASE key = "User-Agent" -> "user-agent"
    [] key = "Cookie" -> "cookie"
    [] OTHER -> key

\* const importantHeaders = [...]
importantHeaders ==
  {"content-type", "user-agent", "referer", "x-request-id", "x-correlation-id",
   "x-forwarded-for"}

\* mutant: every header is copied
AllowedAny(key) == TRUE

\* importantHeaders.includes(key.toLowerCase())
Allowed(key) == ToLowerCase(key) \in importantHeaders

\* request.url: one that new URL() accepts, with or without a query, and one
\* that it rejects
Urls ==
  { [valid |-> FALSE],
    [valid |-> TRUE, pathname |-> "/users/123", searchParams |-> [k \in {"sort"} |-> "name"]],
    [valid |-> TRUE, pathname |-> "/users/123", searchParams |-> [k \in {} |-> "name"]] }

\* request.headers: a Headers object or a plain object
HeaderKinds == {"Headers", "object"}

HeaderMaps == UNION {[S -> HeaderValues] : S \in SUBSET HeaderNames}

Requests ==
  { [url |-> u, method |-> "GET", kind |-> k, headers |-> h] :
      u \in Urls, k \in HeaderKinds, h \in HeaderMaps }

\* the (key, value) pairs that forEach visits: a Headers object hands out
\* lower-cased names, Object.entries the keys as written
HeaderEntries(request) ==
  IF request.kind = "Headers"
  THEN {<<ToLowerCase(n), request.headers[n]>> : n \in DOMAIN request.headers}
  ELSE {<<n, request.headers[n]>> : n \in DOMAIN request.headers}

\* the value extractRequestData(request) returns
ExtractedData(request) ==
  IF ~request.url.valid
  THEN [path |-> "unknown", method |-> "unknown",
        headers |-> [k \in {} |-> 1], query |-> [k \in {} |-> "name"]]
  ELSE LET kept == {e \in HeaderEntries(request) : Allowed(e[1])}
       IN [path |-> request.url.pathname, method |-> request.method,
           headers |-> [k \in {e[1] : e \in kept} |->
                          CHOOSE v \in HeaderValues : <<k, v>> \in kept],
           query |-> request.url.searchParams]

RequestInit ==
  \E request \in Requests :
    Loaded(NoLogger, [fn |-> "extractRequestData", request |-> request, called |-> FALSE])

\* extractRequestData(request)
ExtractRequestData ==
  /\ probe.fn = "extractRequestData"
  /\ ~probe.called
  /\ probe' = [fn |-> "extractRequestData", request |-> probe.request, called |-> TRUE,
               data |-> ExtractedData(probe.request)]
  /\ errSink' = IF probe.request.url.valid THEN errSink
                ELSE Append(errSink, [op |-> 0, msg |-> "Failed to extract request data:",
                                      cause |-> "url"])
  /\ UNCHANGED <<writeQueue, ops, pc, promise, active, rotated, now,
                 written, stepFailed, rotFailed, faults, configCalls, globalLoggerConfig,
                 dirs, console, callPc, loggerConfig, loggerCalls, lastRotationCheck,
                 fileManagerLastRotationCheck, heap, held, overtaken,
                 patches, writersQueue>>

NextRequest == ExtractRequestData

RequestSpec == RequestInit /\ [][NextRequest]_vars

\* ------------------------------------------------------------------------
\* Files of one log path: the rotated ones and the active one
RotatedOf(path) == {r \in rotated : r.from = path}

\* the position of the first byte operation i wrote into content, 0 when absent
RECURSIVE FirstPos(_, _, _)
FirstPos(content, i, k) ==
  IF k > Len(content) THEN 0
  ELSE IF content[k].op = i THEN k
  ELSE FirstPos(content, i, k + 1)

\* within one file the bytes of an earlier operation come first
InOrder(content) ==
  \A k \in 1..Len(content) : \A l \in k..Len(content) : content[k].op <= content[l].op

\* C1: total order. Appends succeed in enqueue order; inside every file the
\* line of an earlier operation precedes the line of a later one; and of two
\* operations on one path the later one is never in a file rotated earlier
\* than the file holding the earlier one.
C1_TotalOrder ==
  /\ \A k \in 1..Len(written) : \A l \in k..Len(written) : written[k] <= written[l]
  /\ \A p \in Paths :
       /\ InOrder(active[p].content)
       /\ \A r \in RotatedOf(p) :
            /\ InOrder(r.content)
            /\ \A a \in OpsIn(r.content) : \A b \in OpsIn(active[p].content) : a < b
            /\ \A r2 \in RotatedOf(p) :
                 r.at < r2.at =>
                   \A a \in OpsIn(r.content) : \A b \in OpsIn(r2.content) : a < b

\* two payloads of one path written, one file rotated after the first
C1_Witness ==
  \E p \in Paths : \E r \in RotatedOf(p) :
    /\ OpsIn(r.content) # {}
    /\ Cardinality(OpsIn(active[p].content)) >= 2

\* C2: mutual exclusion. At most one operation is inside its body, and an
\* operation is inside or past its body only when every operation enqueued
\* before it has finished.
C2_MutualExclusion ==
  /\ Cardinality({i \in OpIds : InBody(i)}) <= 1
  /\ \A i \in OpIds : \A j \in OpIds :
       (i < j /\ pc[j] # "queued") => pc[i] \in {"done", "skipped"}

\* an operation is in its body while a later one waits behind it
C2_Witness ==
  \E i \in OpIds : \E j \in OpIds : i < j /\ InBody(i) /\ pc[j] = "queued"

\* C3: no lost writes. A finished operation has either appended its payload
\* or had its failure printed to the error sink.
Reported(i) == \E k \in 1..Len(errSink) : errSink[k].op = i

C3_NoLostWrites ==
  \A i \in OpIds :
    pc[i] \in {"done", "skipped"} => (\E k \in 1..Len(written) : written[k] = i) \/ Reported(i)

\* an operation whose appendFile failed has finished, reported and not appended
C3_Witness ==
  \E i \in OpIds :
    /\ pc[i] = "done"
    /\ \A k \in 1..Len(written) : written[k] # i
    /\ \E k \in 1..Len(errSink) : errSink[k].op = i /\ errSink[k].cause = "append"

\* C4: fault isolation. An operation enqueued behind one whose step failed is
\* never skipped, may start as soon as everything before it has finished, and
\* once it has finished without a failure of its own it has appended its payload.
C4_FaultIsolation ==
  \A i \in OpIds : \A j \in OpIds :
    (i < j /\ i \in stepFailed) =>
      /\ pc[j] # "skipped"
      /\ (pc[j] = "queued" /\ \A k \in 1..(j - 1) : pc[k] = "done") => ReadyToRun(j)
      /\ (pc[j] = "done" /\ j \notin stepFailed) => \E k \in 1..Len(written) : written[k] = j

\* an operation has failed and a later one has finished with its payload appended
C4_Witness ==
  \E i \in OpIds : \E j \in OpIds :
    /\ i < j /\ i \in stepFailed /\ pc[j] = "done"
    /\ \E k \in 1..Len(written) : written[k] = j

\* C5: no filesystem failure reaches the caller: the promise returned by
\* safeAppendToLog is never rejected.
C5_NeverRejects ==
  \A i \in OpIds : promise[i] # "rejected"

\* an operation one of whose steps failed has finished with its promise fulfilled
C5_Witness ==
  \E i \in OpIds : i \in stepFailed /\ pc[i] = "done" /\ promise[i] = "fulfilled"

\* ------------------------------------------------------------------------
\* every file on disk: the existing active files and the rotated ones
AllContents ==
  {active[p].content : p \in {q \in AllPaths : active[q].exists}}
    \cup {r.content : r \in rotated}

ContentsOf(path) ==
  (IF active[path].exists THEN {active[path].content} ELSE {})
    \cup {r.content : r \in RotatedOf(path)}

\* the record of operation i as it must appear on disk: payload, then newline
Unit(i) == Tag(ops[i].data \o <<"\n">>, i)

\* content is a concatenation of whole records, each written by one operation
RECURSIVE IsUnits(_)
IsUnits(content) ==
  IF content = <<>> THEN TRUE
  ELSE LET u == Unit(content[1].op)
       IN /\ Len(content) >= Len(u)
          /\ SubSeq(content, 1, Len(u)) = u
          /\ IsUnits(SubSeq(content, Len(u) + 1, Len(content)))

\* the lines of a byte sequence: the pieces ended by a newline, and the
\* unterminated rest when there is one
RECURSIVE Lines(_, _)
Lines(bytes, cur) ==
  IF bytes = <<>> THEN (IF cur = <<>> THEN {} ELSE {cur})
  ELSE IF Head(bytes) = "\n" THEN {cur} \cup Lines(Tail(bytes), <<>>)
  ELSE Lines(Tail(bytes), Append(cur, Head(bytes)))

EnqueuedPayloads == {ops[i].data : i \in OpIds}

AllFinished == \A i \in OpIds : pc[i] \in {"done", "skipped"}

\* C6: order preservation across rotation. After concurrently issued calls
\* have drained without any filesystem failure, every payload is present as
\* a whole record in the files of its path, and inside each file the records
\* are in submission order.
C6_OrderAcrossRotation ==
  (/\ Len(ops) >= 2
   /\ AllFinished
   /\ faults = 0
   /\ \A i \in 2..Len(ops) : ops[i].behindPending)
  => /\ \A i \in OpIds :
          \E content \in ContentsOf(ops[i].path) :
            FirstPos(content, i, 1) # 0
     /\ \A content \in AllContents : InOrder(content)

\* C7 as stated: every file is a concatenation of whole records and every
\* line of every file is one complete record.
C7_EveryLineARecord ==
  \A content \in AllContents :
    /\ IsUnits(content)
    /\ Lines(Bytes(content), <<>>) \subseteq EnqueuedPayloads

\* C7 amended: every file is a concatenation of whole records (payload, then
\* one newline), each written by one operation and never interleaved; a file
\* whose records contain no newline of their own has one complete record per line.
C7_NoInterleaving ==
  \A content \in AllContents :
    /\ IsUnits(content)
    /\ (\A i \in OpsIn(content) : \A k \in 1..Len(ops[i].data) : ops[i].data[k] # "\n")
         => /\ content[Len(content)].c = "\n"
            /\ Lines(Bytes(content), <<>>) = {ops[i].data : i \in OpsIn(content)}

\* a file holds the records of two operations, one of them with two lines
C7_Witness ==
  \E content \in AllContents :
    /\ Cardinality(OpsIn(content)) >= 2
    /\ \E i \in OpsIn(content) : \E k \in 1..Len(ops[i].data) : ops[i].data[k] = "\n"

\* the operation that appended the last record of a file
LastOp(content) == content[Len(content)].op

WithinOneRecord(content) ==
  Len(content) < ops[LastOp(content)].maxSize + Len(ops[LastOp(content)].data) + 1

FacadeOps == {i \in OpIds : ops[i].src = "facade"}

InWritten(i) == \E k \in 1..Len(written) : written[k] = i

RECURSIVE SumSizes(_)
SumSizes(k) == IF k = 0 THEN 0 ELSE SumSizes(k - 1) + Len(ops[k].data) + 1

\* the number of files of the path that hold the record of operation i
Occurrences(i, path) ==
  Cardinality({content \in ContentsOf(path) : FirstPos(content, i, 1) # 0})

\* C9: rotation through the facade. With maxLogSize configured to S,
\* sequentially awaited log calls whose records add up to more than S, once
\* all are done without a filesystem failure, have produced a rotated file,
\* and the files hold every message exactly once, in call order.
C9_FacadeRotation ==
  (/\ Len(ops) >= 1
   /\ AllFinished
   /\ faults = 0
   /\ \A i \in OpIds :
        /\ ops[i].src = "facade"
        /\ ~ops[i].behindPending
        /\ "maxLogSize" \in DOMAIN ops[i].cfg
   /\ \A i \in OpIds : SumSizes(Len(ops)) > ops[i].cfg.maxLogSize)
  => /\ rotated # {}
     /\ \A i \in OpIds : \E p \in Paths : Occurrences(i, p) = 1
     /\ \A content \in AllContents : InOrder(content)

\* C10: configured target. A record written by a logging call made with
\* logFilePath set to P is in a file of P and in no file of another path.
C10_ConfiguredTarget ==
  \A i \in FacadeOps :
    ("logFilePath" \in DOMAIN ops[i].cfg /\ \E k \in 1..Len(written) : written[k] = i)
      => /\ Occurrences(i, ops[i].cfg.logFilePath) >= 1
         /\ \A p \in Paths \ {ops[i].cfg.logFilePath} : Occurrences(i, p) = 0

\* the order DEBUG < INFO < WARN < ERROR
LevelsAscending == <<"DEBUG", "INFO", "WARN", "ERROR">>

Position(level) == CHOOSE k \in 1..Len(LevelsAscending) : LevelsAscending[k] = level

\* ------------------------------------------------------------ Logger class
\* the minLevel in force: the one given to the constructor, INFO when none
MinLevelInForce == IF loggerConfig.given = "" THEN "INFO" ELSE loggerConfig.given

Enqueuing == {k \in 1..Len(loggerCalls) : loggerCalls[k].enq # 0}

\* C11: level gate of the Logger class. A call at level L has enqueued a
\* write exactly when L is at or above the minLevel in force (INFO when
\* none was given) in the order DEBUG < INFO < WARN < ERROR; the operations
\* of the queue are those of the passing calls; and a suppressed call
\* changes neither the queue nor any file, directory, or console output.
C11_LoggerLevelGate ==
  /\ [](loggerConfig.constructed
          => /\ \A k \in 1..Len(loggerCalls) :
                  /\ k \in Enqueuing
                       <=> Position(loggerCalls[k].level) >= Position(MinLevelInForce)
                  /\ k \in Enqueuing
                       => /\ loggerCalls[k].enq \in OpIds
                          /\ ops[loggerCalls[k].enq].call.level = loggerCalls[k].level
             /\ Len(ops) = Cardinality(Enqueuing))
  /\ [][(/\ Len(loggerCalls') > Len(loggerCalls)
         /\ loggerCalls'[Len(loggerCalls')].enq = 0)
          => UNCHANGED <<writeQueue, ops, pc, promise, active, rotated, dirs,
                         console, errSink, written>>]_vars

\* with no minLevel given, a debug call was suppressed and the info call
\* after it has written its record
C11_Witness ==
  /\ loggerConfig.constructed
  /\ loggerConfig.given = ""
  /\ \E k \in 1..Len(loggerCalls) : \E l \in Enqueuing :
       /\ k < l
       /\ loggerCalls[k].level = "DEBUG" /\ loggerCalls[k].enq = 0
       /\ loggerCalls[l].level = "INFO"
       /\ InWritten(loggerCalls[l].enq)

\* ------------------------------------------------------------ function API
\* C12: level gate of the function API. A record appended by a logging call
\* made while the global configuration holds minLevel M has a level whose
\* rank is at least the rank of M.
C12_FunctionApiGate ==
  \A i \in FacadeOps :
    (InWritten(i) /\ "minLevel" \in DOMAIN ops[i].call.global)
      => Position(ops[i].call.level) >= Position(ops[i].call.global.minLevel)

\* --------------------------------------------------------------- log-entry
\* C13: stack truncation. The entry built by createLogEntry has no error
\* when none was given and an error without a stack when the error had none;
\* otherwise its stack is the given stack when that has fewer than five
\* newlines (at most five lines), and else the given stack up to, and
\* without, its fifth newline: the first five lines, in their order.
C13_StackTruncation ==
  (probe.fn = "createLogEntry" /\ probe.called)
    => LET given == probe.error
           kept == probe.entry.error
       IN IF ~given.present \/ ~given.hasStack THEN kept = given
          ELSE /\ kept.present /\ kept.hasStack /\ kept.name = given.name
               /\ LET nls == {k \in 1..Len(given.stack) : given.stack[k] = "\n"}
                  IN IF Cardinality(nls) < 5 THEN kept.stack = given.stack
                     ELSE \E k \in nls :
                            /\ Cardinality({j \in nls : j < k}) = 4
                            /\ kept.stack = SubSeq(given.stack, 1, k - 1)

\* an entry was built from a stack of ten lines
C13_Witness ==
  /\ probe.fn = "createLogEntry" /\ probe.called
  /\ probe.error.present /\ probe.error.hasStack
  /\ Cardinality({k \in 1..Len(probe.error.stack) : probe.error.stack[k] = "\n"}) >= 9
  /\ Cardinality({k \in 1..Len(probe.entry.error.stack) : probe.entry.error.stack[k] = "\n"}) = 4

\* ------------------------------------------------------------ function API
\* the value the configuration effective for call i has under key: the
\* override's when the override has the key, the global one's otherwise
Effective(i, key) ==
  IF key \in DOMAIN ops[i].call.override
    THEN ops[i].call.override[key]
    ELSE ops[i].call.global[key]

ConsoleEntries(i) == {k \in 1..Len(console) : console[k].op = i}

Blank == {" ", "\n", "\t"}

\* text is str without its leading and trailing blanks
IsTrimOf(text, str) ==
  \E a \in 0..Len(str) : \E b \in 0..Len(str) :
    /\ a + b <= Len(str)
    /\ text = SubSeq(str, a + 1, Len(str) - b)
    /\ \A k \in 1..a : str[k] \in Blank
    /\ \A k \in (Len(str) - b + 1)..Len(str) : str[k] \in Blank
    /\ text # <<>> => text[1] \notin Blank /\ text[Len(text)] \notin Blank

C15_PerCallOverride ==
  /\ [](\A i \in FacadeOps :
          /\ DOMAIN ops[i].cfg = DOMAIN ops[i].call.global \cup DOMAIN ops[i].call.override
          /\ \A key \in DOMAIN ops[i].cfg : ops[i].cfg[key] = Effective(i, key)
          /\ ops[i].data
               = Format(Effective(i, "format"), ops[i].call.level, ops[i].call.message)
          /\ callPc[i] = "returned"
               => (ConsoleEntries(i) # {} <=> Effective(i, "consoleOutput")))
  /\ [][Len(ops') > Len(ops) => globalLoggerConfig' = globalLoggerConfig]_vars

\* a call overriding json by text and switching the mirror on has written
\* and mirrored its record; the call after it, without override, has written
\* a json record without mirroring it
C15_Witness ==
  \E i \in FacadeOps : \E j \in FacadeOps :
    /\ i < j
    /\ ops[i].call.global.format = "json" /\ ops[i].call.override = [format |-> "text", consoleOutput |-> TRUE]
    /\ DOMAIN ops[j].call.override = {} /\ ops[j].cfg.format = "json"
    /\ InWritten(i) /\ InWritten(j)
    /\ callPc[i] = "returned" /\ callPc[j] = "returned"
    /\ ConsoleEntries(i) # {} /\ ConsoleEntries(j) = {}

\* ------------------------------------------------- directory and rotation
ReportedCause(i, cause) ==
  \E k \in 1..Len(errSink) : errSink[k].op = i /\ errSink[k].cause = cause

\* operation i takes the step that ends its call of ensureLogDirectory
EnsureStep(i) == pc[i] = "ensure" /\ pc'[i] # "ensure"

PassedEnsure(i) == pc[i] \in {"pre", "append", "post", "done"} /\ ~ReportedCause(i, "mkdir")

\* C16: idempotent directory ensure. A call of ensureLogDirectory on a
\* directory that already exists, however many calls came before, reports no
\* error, returns normally and leaves the directory and every file in it as
\* they were.
C16_EnsureIdempotent ==
  [][\A i \in OpIds :
       (EnsureStep(i) /\ PathParts[ops[i].path].dir \in dirs)
         => /\ errSink' = errSink
            /\ pc'[i] = "pre"
            /\ dirs' = dirs
            /\ active' = active
            /\ rotated' = rotated]_vars

\* three calls have returned, two of them made on the existing directory,
\* with a file in the directory
C16_Witness ==
  /\ Len(ops) >= 3
  /\ \A i \in 1..3 : PassedEnsure(i)
  /\ \E p \in Paths : active[p].exists

\* C17: directory-creation failure. An operation whose ensureLogDirectory
\* failed has reported the failure, has ended with its promise fulfilled and
\* has appended nothing; the failing step leaves every file as it was; no
\* later operation is skipped, and the next one may run as soon as the
\* operations before it are done.
C17_MkdirFailureAbortsOne ==
  /\ [](\A i \in OpIds :
          ReportedCause(i, "mkdir")
            => /\ pc[i] = "done"
               /\ promise[i] = "fulfilled"
               /\ ~InWritten(i)
               /\ \A content \in AllContents : i \notin OpsIn(content)
               /\ \A j \in OpIds :
                    j > i => /\ pc[j] # "skipped"
                             /\ (pc[j] = "queued" /\ \A k \in 1..(j - 1) : pc[k] = "done")
                                  => PromiseState(ops[j].pred) = "fulfilled")
  /\ [][\A i \in OpIds :
          (EnsureStep(i) /\ pc'[i] # "pre")
            => /\ Len(errSink') > Len(errSink)
               /\ errSink'[Len(errSink')].op = i
               /\ active' = active
               /\ rotated' = rotated
               /\ written' = written]_vars

\* the directory could not be created for one operation and the operation
\* queued behind it has appended its record
C17_Witness ==
  \E i \in OpIds : \E j \in OpIds :
    /\ j = i + 1
    /\ ReportedCause(i, "mkdir")
    /\ pc[j] = "done" /\ InWritten(j)
    /\ active[ops[j].path].content = Unit(j)

RotateStep(i) == pc[i] \in {"pre", "post"} /\ pc'[i] # pc[i]

\* the step moves the file at path p to a rotated name
Renamed(p) ==
  /\ active[p].exists
  /\ ~active'[p].exists
  /\ \E r \in rotated' : r.from = p /\ r.content = active[p].content

DigitValue(c) == CHOOSE d \in 0..9 : Digit(d) = c

\* the instant a 24 character timestamp of the first minute stands for
ParseInstant(stamp) ==
  (DigitValue(stamp[18]) * 10 + DigitValue(stamp[19])) * 1000
    + DigitValue(stamp[21]) * 100 + DigitValue(stamp[22]) * 10 + DigitValue(stamp[23])

\* C20: rotated naming. Every rotated file is named <dir>/<base>-<stamp><ext>
\* after the path it came from; the stamp has no ':' and no '.', is the ISO
\* string of the rotation instant with those characters replaced by '-', and
\* parses back to that instant. A rotation leaves nothing at the original
\* path and the whole former content under the new name; an append to a
\* missing file creates a file holding that one record.
C20_RotatedNaming ==
  /\ [](\A r \in rotated :
          LET parts == PathParts[r.from]
              stamp == SubSeq(r.name, 5, Len(r.name) - 1)
              iso == ToISOString(ClockEpoch + r.at)
          IN /\ Len(stamp) = 24
             /\ SubSeq(r.name, 1, 4) = <<parts.dir, "/", parts.base, "-">>
             /\ r.name[Len(r.name)] = parts.ext
             /\ \A k \in 1..24 :
                  /\ stamp[k] \notin {":", "."}
                  /\ stamp[k] = (IF iso[k] \in {":", "."} THEN "-" ELSE iso[k])
             /\ SubSeq(stamp, 1, 17)
                  = <<"1", "9", "7", "0", "-", "0", "1", "-", "0", "1", "T",
                      "0", "0", "-", "0", "0", "-">>
             /\ stamp[20] = "-" /\ stamp[24] = "Z"
             /\ ParseInstant(stamp) = ClockEpoch + r.at)
  /\ [][\A p \in AllPaths :
          /\ (active[p].exists /\ ~active'[p].exists)
               => /\ active'[p] = NoFile
                  /\ \E r \in rotated' :
                       /\ r.name = RotatedName(p, now) /\ r.from = p /\ r.at = now
                       /\ r.content = active[p].content
          /\ (~active[p].exists /\ active'[p].exists)
               => active'[p].content = Unit(active'[p].content[1].op)]_vars

\* a file was rotated after the clock had moved into the next second, and a
\* later append has created a fresh file at the original path
C20_Witness ==
  \E r \in rotated :
    /\ r.at >= 1
    /\ active[r.from].exists
    /\ \A a \in OpsIn(r.content) : \A b \in OpsIn(active[r.from].content) : a < b

\* ------------------------------------------------------------------------
Finished(i) == pc[i] \in {"done", "skipped"}

\* C21: completion signal. The promise returned for an operation is settled
\* only when that operation's body has finished and every operation enqueued
\* before it has finished and settled; it stays pending while the payload
\* waits or is being written, and once settled it never changes.
C21_CompletionSignal ==
  /\ [](\A i \in OpIds :
          /\ promise[i] # "pending" =>
               /\ Finished(i)
               /\ \A k \in 1..(i - 1) : Finished(k) /\ promise[k] # "pending"
          /\ (pc[i] = "queued" \/ InBody(i)) => promise[i] = "pending")
  /\ [][\A i \in OpIds : promise[i] # "pending" => promise'[i] = promise[i]]_vars

\* the promise of an operation that has appended is fulfilled while the
\* promise of a later operation is still pending
C21_Witness ==
  \E i \in OpIds : \E j \in OpIds :
    /\ i < j
    /\ promise[i] = "fulfilled" /\ InWritten(i)
    /\ promise[j] = "pending"

\* C22: non-blocking enqueue. safeAppendToLog can be called in every state,
\* also while an operation is in flight (the only limit is the bound on the
\* number of calls examined); the call puts its operation at the tail of the
\* chain, waiting, and changes nothing about the operations already there.
C22_NonBlockingEnqueue ==
  /\ [](Len(ops) < MaxOps => ENABLED SafeAppendToLog)
  /\ [][Len(ops') # Len(ops) =>
          /\ Len(ops') = Len(ops) + 1
          /\ writeQueue' = Len(ops')
          /\ pc'[Len(ops')] = "queued" /\ promise'[Len(ops')] = "pending"
          /\ ops'[Len(ops')].pred = writeQueue
          /\ SubSeq(ops', 1, Len(ops)) = ops
          /\ SubSeq(pc', 1, Len(ops)) = pc
          /\ SubSeq(promise', 1, Len(ops)) = promise
          /\ active' = active /\ rotated' = rotated /\ written' = written]_vars

\* two calls were made while an earlier operation was in flight, and both
\* operations wait behind it
C22_Witness ==
  \E i \in OpIds :
    /\ InBody(i)
    /\ Cardinality({j \in OpIds : j > i /\ pc[j] = "queued" /\ ops[j].behindPending}) >= 2

\* the moves of one operation through safeAppendToLog
StepPairs ==
  { <<"queued", "ensure">>, <<"queued", "skipped">>,
    <<"ensure", "pre">>, <<"ensure", "done">>,
    <<"pre", "append">>,
    <<"append", "post">>, <<"append", "done">>,
    <<"post", "done">> }

\* C25: step order inside one operation. An operation moves through ensure
\* directory, pre-check, append, post-check in that order (a failed ensure or
\* a failed append ends it); its record is on disk only once the ensure and
\* the pre-check are behind it, the append is the step that adds payload plus
\* newline, and the post-check runs only after a successful append.
C25_StepOrder ==
  /\ [](\A i \in OpIds :
          /\ InWritten(i) => pc[i] \in {"post", "done"}
          /\ pc[i] = "post" => InWritten(i)
          /\ pc[i] \in {"pre", "append", "post"} => Dirname(ops[i].path) \in dirs)
  /\ [][\A i \in OpIds :
          pc'[i] # pc[i] =>
            /\ <<pc[i], pc'[i]>> \in StepPairs
            /\ IF <<pc[i], pc'[i]>> = <<"append", "post">>
                 THEN /\ written' = Append(written, i)
                      /\ active'[ops[i].path].content
                           = active[ops[i].path].content \o Unit(i)
                 ELSE written' = written
            /\ <<pc[i], pc'[i]>> = <<"post", "done">> =>
                 active'[ops[i].path] \in {active[ops[i].path], NoFile}]_vars

\* one operation went through all four steps, its post-check rotating the
\* file it had just appended to, and another ended at a failed step
C25_Witness ==
  /\ \E i \in OpIds :
       /\ pc[i] = "done" /\ InWritten(i)
       /\ \E r \in rotated : LastOp(r.content) = i /\ Len(r.content) >= ops[i].maxSize
  /\ \E j \in OpIds : pc[j] = "done" /\ ~InWritten(j)

\* C24: rotation state ownership. While an append operation is in flight,
\* every write of file-manager's lastRotationCheck is a step of that operation.
C24_RotationStateOwnership ==
  [][(/\ fileManagerLastRotationCheck' # fileManagerLastRotationCheck
      /\ \E i \in OpIds : InBody(i))
       => \E i \in OpIds : InBody(i) /\ pc'[i] # pc[i]]_vars

\* the file at the path of operation i is at or over the operation's limit
AtLimit(i) ==
  /\ active[ops[i].path].exists
  /\ Len(active[ops[i].path].content) >= ops[i].maxSize

C23_EventualCompletion ==
  /\ \A i \in 1..MaxOps :
       (i \in OpIds) ~> (i \in OpIds /\ pc[i] = "done" /\ promise[i] = "fulfilled")
  /\ [](\A i \in OpIds : pc[i] # "skipped")

\* every call examined has been made and every operation has finished, one
\* of them after a failed filesystem step
C23_Witness ==
  /\ Len(ops) = MaxOps
  /\ \A i \in OpIds : pc[i] = "done" /\ promise[i] = "fulfilled"
  /\ stepFailed # {}

\* the operation leaves the place between ensureLogDirectory and fs.appendFile
WritersCheckStep(i) == pc[i] = "pre" /\ pc'[i] # "pre"

\* C27: interval-gated writers variant. An operation of the writers module
\* runs the rotation check iff now - lastRotationCheck > ROTATION_CHECK_INTERVAL
\* when it gets there, and a check that returns sets lastRotationCheck to the
\* clock reading; an operation inside the interval goes on to its append
\* leaving lastRotationCheck, the files and the error sink as they were; and
\* nothing else writes lastRotationCheck.
C27_IntervalGatedWriters ==
  /\ [][\A i \in OpIds :
          WritersCheckStep(i) =>
            IF now - lastRotationCheck > ROTATION_CHECK_INTERVAL
              THEN pc'[i] = "append" => lastRotationCheck' = now
              ELSE /\ pc'[i] = "append"
                   /\ lastRotationCheck' = lastRotationCheck
                   /\ active' = active /\ rotated' = rotated
                   /\ errSink' = errSink]_vars
  /\ [][lastRotationCheck' # lastRotationCheck
          => \E i \in OpIds : WritersCheckStep(i) /\ lastRotationCheck' = now]_vars

\* a check was made after the interval had passed, and two operations have
\* got past the place of the check: one of them made it, the other was
\* inside the interval
C27_Witness ==
  /\ lastRotationCheck = ROTATION_CHECK_INTERVAL + 1
  /\ \E i \in OpIds : \E j \in OpIds :
       i < j /\ InWritten(i) /\ pc[j] = "append"

\* C28: fault isolation in the writers variant. A failed step of one
\* operation does not keep a later operation from running: no operation
\* enqueued behind a failed one is skipped.
C28_WritersFaultIsolation ==
  \A i \in OpIds : \A j \in OpIds :
    (i < j /\ i \in stepFailed) => pc[j] # "skipped"

\* the bytes operation i has put into the file holding content
RECURSIVE RecordOf(_, _)
RecordOf(i, content) ==
  IF content = <<>> THEN <<>>
  ELSE IF Head(content).op = i
    THEN <<Head(content).c>> \o RecordOf(i, Tail(content))
    ELSE RecordOf(i, Tail(content))

\* C29: configuration snapshot per call. For a call that setLoggerConfig
\* overtook (issued, not yet appended), the record that reaches the disk has
\* the format of the configuration in effect at the time of the call, and the
\* record is mirrored iff that configuration says so, whatever the global
\* configuration has become; setLoggerConfig changes no operation already
\* issued.
C29_ConfigSnapshot ==
  /\ [](\A i \in overtaken :
          /\ InWritten(i) =>
               \E content \in AllContents :
                 RecordOf(i, content)
                   = Format(Effective(i, "format"), ops[i].call.level, ops[i].call.message)
                       \o <<"\n">>
          /\ callPc[i] = "returned"
               => (ConsoleEntries(i) # {} <=> Effective(i, "consoleOutput")))
  /\ [][globalLoggerConfig' # globalLoggerConfig
          => ops' = ops /\ active' = active /\ console' = console]_vars

\* a call issued under json without mirror was overtaken by a
\* setLoggerConfig that selects text with mirror: its json record is on disk,
\* the call has returned and nothing was mirrored
C29_Witness ==
  \E i \in overtaken :
    /\ InWritten(i) /\ callPc[i] = "returned"
    /\ Effective(i, "format") = "json" /\ ~Effective(i, "consoleOutput")
    /\ globalLoggerConfig.format = "text" /\ globalLoggerConfig.consoleOutput
    /\ ConsoleEntries(i) = {}

\* the global configuration by value: formatOptions with what the object holds
GlobalValue ==
  [key \in DOMAIN globalLoggerConfig |->
     IF key = "formatOptions" THEN heap[globalLoggerConfig[key]]
     ELSE globalLoggerConfig[key]]

\* C30: the global configuration changes only through setLoggerConfig. A
\* write into the object returned by getLoggerConfig, or into its nested
\* formatOptions, leaves the global configuration as it was, and every
\* logging call hands the formatter the formatOptions that the initial
\* configuration and the setLoggerConfig calls have given.
C30_ConfigOnlyThroughSetter ==
  /\ [][GlobalValue' # GlobalValue => configCalls' # configCalls]_vars
  /\ [](\A i \in FacadeOps : ops[i].call.options = NoOptions)

\* C32: rotation never overwrites. Two rotations of one path give two
\* different names, a rotated file is never replaced or removed, and every
\* record once appended stays in the active or in a rotated file.
C32_RotationNeverOverwrites ==
  /\ [](\A i \in OpIds : InWritten(i) => \E content \in AllContents : i \in OpsIn(content))
  /\ [][\A r \in rotated : r \in rotated']_vars
  /\ [][\A p \in AllPaths :
          (active[p].exists /\ ~active'[p].exists)
            => \A r \in rotated : r.name # RotatedName(p, now)]_vars

\* no operation is executing its body
Quiescent == \A i \in OpIds : ~InBody(i)

\* the active file of path p is missing or smaller than the maxSize of the
\* operation that wrote its last record
BelowLimit(p) ==
  active[p].exists => Len(active[p].content) < ops[LastOp(active[p].content)].maxSize

RenameFailed == \E k \in 1..Len(errSink) : errSink[k].cause = "rename"

LevelFile ==
  [ERROR |-> "logs/errors.log", WARN |-> "logs/warnings.log",
   DEBUG |-> "logs/debug.log", INFO |-> "logs/app.log"]

\* C37: per-level routing in the Logger class. Every record in a file was
\* written by a call of the level that file belongs to: ERROR in errors.log,
\* WARN in warnings.log, DEBUG in debug.log, INFO in app.log under logDir.
C37_LevelRouting ==
  \A p \in AllPaths : \A k \in 1..Len(active[p].content) :
    LET i == active[p].content[k].op
    IN /\ ops[i].path = p
       /\ p = LevelFile[ops[i].call.level]

\* two files of the Logger hold a record each, of two different levels
C37_Witness ==
  \E i \in OpIds : \E j \in OpIds :
    /\ ops[i].call.level # ops[j].call.level
    /\ InWritten(i) /\ InWritten(j)
    /\ active[LevelFile[ops[i].call.level]].exists
    /\ active[LevelFile[ops[j].call.level]].exists

\* the object with the values of patch under the keys of patch and the
\* values of base under every other key of base
Overlay(base, patch) ==
  [key \in DOMAIN base \cup DOMAIN patch |->
     IF key \in DOMAIN patch THEN patch[key] ELSE base[key]]

\* the configuration after the first n setLoggerConfig calls
RECURSIVE ConfigAfter(_)
ConfigAfter(n) ==
  IF n = 0 THEN DefaultCfg ELSE Overlay(ConfigAfter(n - 1), patches[n])

\* C31: setLoggerConfig is a merge. A call sets exactly the keys of its
\* argument and leaves every other key of the global configuration at its
\* previous value; when the last two calls set disjoint keys, the
\* configuration is the one the opposite order of the two would have given.
C31_SetLoggerConfigMerge ==
  /\ [][Len(patches') > Len(patches) =>
          LET patch == patches'[Len(patches')]
          IN /\ DOMAIN globalLoggerConfig' = DOMAIN globalLoggerConfig \cup DOMAIN patch
             /\ \A key \in DOMAIN patch : globalLoggerConfig'[key] = patch[key]
             /\ \A key \in DOMAIN globalLoggerConfig \ DOMAIN patch :
                  globalLoggerConfig'[key] = globalLoggerConfig[key]]_vars
  /\ [](Len(patches) >= 2 =>
          LET n == Len(patches)
          IN DOMAIN patches[n] \cap DOMAIN patches[n - 1] = {}
               => globalLoggerConfig
                    = Overlay(Overlay(ConfigAfter(n - 2), patches[n]), patches[n - 1]))

\* two calls with disjoint keys were made, the second after the first had
\* changed the format: both values are in force and the untouched key is as
\* it was
C31_Witness ==
  /\ Len(patches) = 2
  /\ patches[1] = [format |-> "text"] /\ patches[2] = [minLevel |-> "WARN"]
  /\ globalLoggerConfig.format = "text" /\ globalLoggerConfig.minLevel = "WARN"
  /\ globalLoggerConfig.consoleOutput = FALSE

\* C34: one process-wide queue. Whatever made it (a Logger instance or the
\* function API) and whatever its path, an operation does not start until
\* every operation enqueued before it has finished.
C34_OneProcessWideQueue ==
  /\ Cardinality({i \in OpIds : InBody(i)}) <= 1
  /\ \A i \in OpIds : \A j \in OpIds :
       (i < j /\ pc[j] # "queued") => Finished(i)

\* C35: the console mirror follows the file write. A record is on the
\* console only after its append operation has settled, the step that
\* mirrors it finds the promise settled, and the records on the console stand
\* in submission order.
C35_MirrorFollowsWrite ==
  /\ [](\A k \in 1..Len(console) :
          /\ promise[console[k].op] # "pending" /\ Finished(console[k].op)
          /\ \A l \in 1..Len(console) : k < l => console[k].op < console[l].op)
  /\ [][Len(console') > Len(console) =>
          /\ Len(console') = Len(console) + 1
          /\ promise[console'[Len(console')].op] # "pending"
          /\ SubSeq(console', 1, Len(console)) = console]_vars

\* two calls were issued without waiting for the first, both records are in
\* the file and on the console
C35_Witness ==
  \E k \in 1..Len(console) : \E l \in 1..Len(console) :
    /\ k < l
    /\ ops[console[l].op].behindPending
    /\ InWritten(console[k].op) /\ InWritten(console[l].op)

\* the instant in the timestamp of the record of operation i
EntryInstant(i) == ParseInstant(ReplaceColonsDots(ops[i].call.timestamp))

SameButOtherHeaders(r, q) ==
  /\ r.url = q.url
  /\ r.method = q.method
  /\ r.kind = q.kind
  /\ \A n \in HeaderNames :
       ToLowerCase(n) \in importantHeaders =>
         /\ (n \in DOMAIN r.headers) = (n \in DOMAIN q.headers)
         /\ n \in DOMAIN r.headers => r.headers[n] = q.headers[n]

\* C38: the headers extractRequestData returns carry only names whose
\* lower-cased form is on the allowlist, and every request that differs from
\* the given one only in other headers (authorization, cookie) yields the
\* same extracted data
C38_HeaderAllowlist ==
  (probe.fn = "extractRequestData" /\ probe.called) =>
    /\ \A k \in DOMAIN probe.data.headers : ToLowerCase(k) \in importantHeaders
    /\ \A q \in Requests :
         SameButOtherHeaders(probe.request, q) => ExtractedData(q) = probe.data

\* a request carrying authorization, a cookie and a mixed-case allowlisted
\* header has been extracted, and only the allowlisted header came back
C38_Witness ==
  /\ probe.fn = "extractRequestData"
  /\ probe.called
  /\ probe.request.url.valid
  /\ probe.request.kind = "object"
  /\ {"authorization", "Cookie", "User-Agent"} \subseteq DOMAIN probe.request.headers
  /\ DOMAIN probe.data.headers = {"User-Agent"}
  /\ probe.data.headers["User-Agent"] = probe.request.headers["User-Agent"]


====
